---- MODULE Spec2Model ----
(***************************************************************************)
(* Model of the two programs of the repository:                            *)
(*   - validate_snapshot_command.py, the structural checker, and           *)
(*   - samples/python-getting-started/app.py, the greeter service.         *)
(*                                                                         *)
(* Text is modelled as a sequence of tokens.  Every token is a literal     *)
(* piece of text, chosen so that the characters and patterns the code      *)
(* looks for ('{', '}', '(', ')', "package", whitespace, the two main.go   *)
(* substrings) can only occur aligned with token boundaries.               *)
(* The three non-ASCII glyphs the script prints are written as their       *)
(* code points: [U+2713] check mark, [U+2717] cross, [U+26A0] warning.     *)
(***************************************************************************)
EXTENDS Integers, Sequences, FiniteSets, TLC

VARIABLES
    fs,            \* checker: path -> "absent" | "readable" | "unreadable"
    pc,            \* checker: position in validate_snapshot_command
    idx,           \* checker: index of the for loop in files_to_check
    issues,        \* checker: local variable issues of validate_snapshot_command
    main_content,  \* checker: local variable main_content
    out,           \* checker: standard output, one element per print call
    exit_code,     \* checker: the exit status of the process, {} until it ends
    content,       \* check_go_syntax alone: the text read from the file
    result,        \* check_go_syntax alone: the returned list
    environ,       \* greeter: is WERKZEUG_RUN_MAIN set in the environment
    gpc,           \* greeter: position in the __main__ block
    gout,          \* greeter: standard output
    served         \* greeter: the requests handled so far with their responses

vars == <<fs, pc, idx, issues, main_content, out, exit_code,
          content, result, environ, gpc, gout, served>>

checkerVars == <<fs, pc, idx, issues, main_content, out, exit_code>>
syntaxVars == <<content, result>>
greeterVars == <<environ, gpc, gout, served>>

(***************************************************************************)
(* Bounds of the model.                                                    *)
(***************************************************************************)
MaxLen == 4        \* tokens in a text given to check_go_syntax alone
MaxMainLen == 3    \* tokens in the text of main.go
MaxRequests == 2   \* requests the greeter handles

BoundedSeq(S, n) == UNION {[1..k -> S] : k \in 0..n}

CHECK == "[U+2713]"
CROSS == "[U+2717]"
WARN == "[U+26A0]"

\* the exit status of a process that has not ended
Running == {}

\* a local variable that was not assigned yet
Unbound == <<"<unbound>">>

(***************************************************************************)
(* check_go_syntax                                                         *)
(***************************************************************************)
Whitespace == {" ", "\n"}
WordTokens == {"x", "package", "main", "func", "f", "if", "true"}
GoAlphabet == {"{", "}", "(", ")", "package", " ", "\n", "x"}

\* str.count of a one-character string
count(text, ch) == Cardinality({k \in 1..Len(text) : text[k] = ch})

\* re.search(r'^package\s+\w+', content, re.MULTILINE) is not None
search_package(text) ==
    \E k \in 1..Len(text) :
        /\ k = 1 \/ text[k - 1] = "\n"
        /\ text[k] = "package"
        /\ \E m \in (k + 2)..Len(text) :
              /\ \A j \in (k + 1)..(m - 1) : text[j] \in Whitespace
              /\ text[m] \in WordTokens

\* mutant of brace_issue: the two counts are reported in the wrong places
brace_issue_swapped(open_braces, close_braces) ==
    "Unmatched braces: " \o ToString(close_braces) \o " open, "
        \o ToString(open_braces) \o " close"

brace_issue(open_braces, close_braces) ==
    "Unmatched braces: " \o ToString(open_braces) \o " open, "
        \o ToString(close_braces) \o " close"

paren_issue(open_parens, close_parens) ==
    "Unmatched parentheses: " \o ToString(open_parens) \o " open, "
        \o ToString(close_parens) \o " close"

package_issue == "Missing package declaration"

\* mutant of check_go_syntax: the three checks chained with elif, so that a
\* failing check hides the later ones
check_go_syntax_elif(text) ==
    LET open_braces == count(text, "{")
        close_braces == count(text, "}")
        open_parens == count(text, "(")
        close_parens == count(text, ")")
    IN IF open_braces # close_braces
       THEN <<brace_issue(open_braces, close_braces)>>
       ELSE IF open_parens # close_parens
            THEN <<paren_issue(open_parens, close_parens)>>
            ELSE IF ~search_package(text)
                 THEN <<package_issue>>
                 ELSE <<>>

\* the body of check_go_syntax after the file was read
check_go_syntax(text) ==
    LET open_braces == count(text, "{")
        close_braces == count(text, "}")
        open_parens == count(text, "(")
        close_parens == count(text, ")")
        issues1 == IF open_braces # close_braces
                   THEN <<brace_issue(open_braces, close_braces)>>
                   ELSE <<>>
        issues2 == IF open_parens # close_parens
                   THEN Append(issues1, paren_issue(open_parens, close_parens))
                   ELSE issues1
        issues3 == IF ~search_package(text)
                   THEN Append(issues2, package_issue)
                   ELSE issues2
    IN issues3

\* "package main\nfunc f() { if true { } }"
CleanExample ==
    <<"package", " ", "main", "\n", "func", " ", "f", "(", ")", " ", "{", " ",
      "if", " ", "true", " ", "{", " ", "}", " ", "}">>

\* "func f() {"
OpenBraceExample == <<"func", " ", "f", "(", ")", " ", "{">>

SyntaxInputs == BoundedSeq(GoAlphabet, MaxLen) \cup {CleanExample, OpenBraceExample}

SyntaxInit ==
    /\ content \in SyntaxInputs
    /\ result = Unbound
    /\ fs = <<>> /\ pc = "idle" /\ idx = 0 /\ issues = Unbound
    /\ main_content = Unbound /\ out = <<>> /\ exit_code = Running
    /\ environ = FALSE /\ gpc = "idle" /\ gout = <<>> /\ served = <<>>

\* lines 20-39: one call, the text of the file being content
CallCheckGoSyntax ==
    /\ result = Unbound
    /\ result' = check_go_syntax(content)
    /\ UNCHANGED <<content, checkerVars, greeterVars>>

SyntaxNext == CallCheckGoSyntax

SyntaxSpec == SyntaxInit /\ [][SyntaxNext]_vars

(***************************************************************************)
(* validate_snapshot_command                                               *)
(***************************************************************************)
files_to_check ==
    << [stem |-> "/workspace/cmd/snapshot/snapshot", ext |-> ".go"],
       [stem |-> "/workspace/cmd/snapshot/upload", ext |-> ".go"],
       [stem |-> "/workspace/cmd/snapshot/upload_test", ext |-> ".go"],
       [stem |-> "/workspace/cmd/snapshot/README", ext |-> ".md"] >>

main_go_path == [stem |-> "/workspace/main", ext |-> ".go"]

PathStr(p) == p.stem \o p.ext

Paths == {files_to_check[k] : k \in 1..Len(files_to_check)} \cup {main_go_path}

\* os.path.exists
check_file_exists(filepath) == fs[filepath] # "absent"

\* filepath.endswith('.go')
endswith_go(filepath) == filepath.ext = ".go"

\* texts of the expected .go files
FileContents ==
    { CleanExample,
      OpenBraceExample,
      <<"package", " ", "main", "\n", "func", " ", "f", "(">>,
      <<"}", ")", ")", "package", " ", "x">>,
      <<>> }

ImportPrefix == "github.com/okteto/okteto/cmd/"
SnapshotWord == "snapshot"
SnapshotCall == ".Snapshot("
MainAlphabet == {ImportPrefix, SnapshotWord, SnapshotCall}
MainContents == BoundedSeq(MainAlphabet, MaxMainLen)

\* 'github.com/okteto/okteto/cmd/snapshot' and 'snapshot.Snapshot('
import_needle == <<ImportPrefix, SnapshotWord>>
call_needle == <<SnapshotWord, SnapshotCall>>

\* needle in text
contains(text, needle) ==
    \E k \in 0..(Len(text) - Len(needle)) :
        \A j \in 1..Len(needle) : text[k + j] = needle[j]

exists_line(filepath) == CHECK \o " " \o PathStr(filepath) \o " exists"
missing_line(filepath) == CROSS \o " " \o PathStr(filepath) \o " missing"
issues_header == "  " \o WARN \o " Syntax issues found:"
issue_line(issue) == "    - " \o issue
passed_line == "  " \o CHECK \o " Basic syntax validation passed"

\* what lines 60-65 print for a returned list
syntax_report(iss) ==
    IF iss # <<>>
    THEN <<issues_header>> \o [k \in 1..Len(iss) |-> issue_line(iss[k])]
    ELSE <<passed_line>>

import_line(text) ==
    IF contains(text, import_needle)
    THEN CHECK \o " Snapshot import added to main.go"
    ELSE CROSS \o " Snapshot import missing from main.go"

\* mutant of command_line: the import substring is searched a second time
command_line_import(text) ==
    IF contains(text, import_needle)
    THEN CHECK \o " Snapshot command added to root command"
    ELSE CROSS \o " Snapshot command not added to root command"

command_line(text) ==
    IF contains(text, call_needle)
    THEN CHECK \o " Snapshot command added to root command"
    ELSE CROSS \o " Snapshot command not added to root command"

banner ==
    << "Validating Okteto Snapshot Command Implementation...",
       "==================================================" >>

summary_block ==
    << "\nValidation Summary:",
       "- Command structure: " \o CHECK \o " Created",
       "- Upload subcommand: " \o CHECK \o " Implemented",
       "- Progress tracking: " \o CHECK \o " Using pb/v3",
       "- Kubernetes integration: " \o CHECK \o " Using existing patterns",
       "- Volume snapshots: " \o CHECK \o " Using snapshot.storage.k8s.io/v1",
       "- CLI integration: " \o CHECK \o " Added to main.go" >>

features_block ==
    << "\nFeatures implemented:",
       "1. " \o CHECK \o " Directory size calculation",
       "2. " \o CHECK \o " PVC creation with size override",
       "3. " \o CHECK \o " Temporary pod creation",
       "4. " \o CHECK \o " kubectl cp with progress tracking",
       "5. " \o CHECK \o " VolumeSnapshot creation",
       "6. " \o CHECK \o " Snapshot readiness monitoring",
       "7. " \o CHECK \o " Resource cleanup",
       "8. " \o CHECK \o " Custom snapshot naming" >>

Init ==
    /\ fs \in [Paths -> {"absent", "readable", "unreadable"}]
    /\ pc = "start"
    /\ idx = 0
    /\ issues = Unbound
    /\ main_content = Unbound
    /\ out = <<>>
    /\ exit_code = Running
    /\ content = Unbound /\ result = Unbound
    /\ environ = FALSE /\ gpc = "idle" /\ gout = <<>> /\ served = <<>>

\* lines 43-44, and entering the for loop
PrintBanner ==
    /\ pc = "start"
    /\ out' = out \o banner
    /\ idx' = 1
    /\ pc' = "loop"
    /\ UNCHANGED <<fs, issues, main_content, exit_code>>
    /\ UNCHANGED <<syntaxVars, greeterVars>>

\* mutant of FileExists: the extension is not looked at
FileExists_any_extension ==
    /\ pc = "loop"
    /\ idx <= Len(files_to_check)
    /\ check_file_exists(files_to_check[idx])
    /\ out' = Append(out, exists_line(files_to_check[idx]))
    /\ pc' = "syntax"
    /\ UNCHANGED <<fs, idx, issues, main_content, exit_code>>
    /\ UNCHANGED <<syntaxVars, greeterVars>>

\* lines 55-58: the file exists
FileExists ==
    /\ pc = "loop"
    /\ idx <= Len(files_to_check)
    /\ check_file_exists(files_to_check[idx])
    /\ out' = Append(out, exists_line(files_to_check[idx]))
    /\ IF endswith_go(files_to_check[idx])
       THEN pc' = "syntax" /\ idx' = idx
       ELSE pc' = "loop" /\ idx' = idx + 1
    /\ UNCHANGED <<fs, issues, main_content, exit_code>>
    /\ UNCHANGED <<syntaxVars, greeterVars>>

\* mutant of FileMissing: the loop is left at the first missing file
FileMissing_break ==
    /\ pc = "loop"
    /\ idx <= Len(files_to_check)
    /\ ~check_file_exists(files_to_check[idx])
    /\ out' = Append(out, missing_line(files_to_check[idx]))
    /\ idx' = Len(files_to_check) + 1
    /\ UNCHANGED <<fs, pc, issues, main_content, exit_code>>
    /\ UNCHANGED <<syntaxVars, greeterVars>>

\* lines 66-67: the file is missing
FileMissing ==
    /\ pc = "loop"
    /\ idx <= Len(files_to_check)
    /\ ~check_file_exists(files_to_check[idx])
    /\ out' = Append(out, missing_line(files_to_check[idx]))
    /\ idx' = idx + 1
    /\ UNCHANGED <<fs, pc, issues, main_content, exit_code>>
    /\ UNCHANGED <<syntaxVars, greeterVars>>

\* lines 59-65: check_go_syntax returns and its list is reported
SyntaxChecked ==
    /\ pc = "syntax"
    /\ fs[files_to_check[idx]] = "readable"
    /\ \E text \in FileContents :
          /\ issues' = check_go_syntax(text)
          /\ out' = out \o syntax_report(check_go_syntax(text))
    /\ idx' = idx + 1
    /\ pc' = "loop"
    /\ UNCHANGED <<fs, main_content, exit_code>>
    /\ UNCHANGED <<syntaxVars, greeterVars>>

\* mutant of SyntaxReadFails: the error is caught and the loop goes on
SyntaxReadFails_caught ==
    /\ pc = "syntax"
    /\ fs[files_to_check[idx]] = "unreadable"
    /\ pc' = "loop"
    /\ idx' = idx + 1
    /\ UNCHANGED <<fs, issues, main_content, out, exit_code>>
    /\ UNCHANGED <<syntaxVars, greeterVars>>

\* lines 17-18 called from line 59: open or read raises, nothing catches it
SyntaxReadFails ==
    /\ pc = "syntax"
    /\ fs[files_to_check[idx]] = "unreadable"
    /\ pc' = "crashed"
    /\ exit_code' = {1}
    /\ UNCHANGED <<fs, idx, issues, main_content, out>>
    /\ UNCHANGED <<syntaxVars, greeterVars>>

\* mutant of MainGoAbsent: main.go is opened without the existence check
MainGoAbsent_unguarded ==
    /\ pc = "loop"
    /\ idx > Len(files_to_check)
    /\ ~check_file_exists(main_go_path)
    /\ pc' = "crashed"
    /\ exit_code' = {1}
    /\ UNCHANGED <<fs, idx, issues, main_content, out>>
    /\ UNCHANGED <<syntaxVars, greeterVars>>

\* lines 70-71: the loop is over, main.go does not exist
MainGoAbsent ==
    /\ pc = "loop"
    /\ idx > Len(files_to_check)
    /\ ~check_file_exists(main_go_path)
    /\ pc' = "summary"
    /\ UNCHANGED <<fs, idx, issues, main_content, out, exit_code>>
    /\ UNCHANGED <<syntaxVars, greeterVars>>

\* lines 70-83: the loop is over, main.go is read and searched
MainGoChecked ==
    /\ pc = "loop"
    /\ idx > Len(files_to_check)
    /\ fs[main_go_path] = "readable"
    /\ \E text \in MainContents :
          /\ main_content' = text
          /\ out' = out \o <<import_line(text), command_line(text)>>
    /\ pc' = "summary"
    /\ UNCHANGED <<fs, idx, issues, exit_code>>
    /\ UNCHANGED <<syntaxVars, greeterVars>>

\* lines 72-73: open or read of main.go raises, nothing catches it
MainGoReadFails ==
    /\ pc = "loop"
    /\ idx > Len(files_to_check)
    /\ fs[main_go_path] = "unreadable"
    /\ pc' = "crashed"
    /\ exit_code' = {1}
    /\ UNCHANGED <<fs, idx, issues, main_content, out>>
    /\ UNCHANGED <<syntaxVars, greeterVars>>

\* mutant of PrintSummary: the summary is printed only for a clean run
PrintSummary_if_clean ==
    /\ pc = "summary"
    /\ out' = IF \A k \in 1..Len(files_to_check) : check_file_exists(files_to_check[k])
              THEN out \o summary_block \o features_block
              ELSE out
    /\ pc' = "done"
    /\ exit_code' = {0}
    /\ UNCHANGED <<fs, idx, issues, main_content>>
    /\ UNCHANGED <<syntaxVars, greeterVars>>

\* mutant of PrintSummary: a missing file makes the exit status 1
PrintSummary_exit_status ==
    /\ pc = "summary"
    /\ out' = out \o summary_block \o features_block
    /\ pc' = "done"
    /\ exit_code' = IF \A k \in 1..Len(files_to_check) : check_file_exists(files_to_check[k])
                    THEN {0}
                    ELSE {1}
    /\ UNCHANGED <<fs, idx, issues, main_content>>
    /\ UNCHANGED <<syntaxVars, greeterVars>>

\* lines 85-101, then the script ends
PrintSummary ==
    /\ pc = "summary"
    /\ out' = out \o summary_block \o features_block
    /\ pc' = "done"
    /\ exit_code' = {0}
    /\ UNCHANGED <<fs, idx, issues, main_content>>
    /\ UNCHANGED <<syntaxVars, greeterVars>>

validate_snapshot_command ==
    \/ PrintBanner
    \/ FileExists
    \/ FileMissing
    \/ SyntaxChecked
    \/ SyntaxReadFails
    \/ MainGoAbsent
    \/ MainGoChecked
    \/ MainGoReadFails
    \/ PrintSummary

Next == validate_snapshot_command

Spec == Init /\ [][Next]_vars

FairSpec == Spec /\ WF_vars(Next)

(***************************************************************************)
(* The greeter service (app.py)                                            *)
(***************************************************************************)
Queries == {"", "name=okteto", "debug=1"}
Headers == {"", "Accept: application/json", "X-Forwarded-For: 10.0.0.1"}
Requests == [method : {"GET"}, path : {"/"}, query : Queries, header : Headers]

\* mutant of hello_world: the greeting depends on the live-reload flag
hello_world_by_flag ==
    LET msg == IF environ THEN "Connecting to debugger..." ELSE "Hello World!"
    IN msg

\* the view function: it takes no argument and reads no state
hello_world ==
    LET msg == "Hello World!"
    IN msg

\* the response the route sends for the value the view returned
route_response(rv) == [status |-> 200, body |-> rv]

GreeterInit ==
    /\ environ \in BOOLEAN
    /\ gpc = "start"
    /\ gout = <<>>
    /\ served = <<>>
    /\ fs = <<>> /\ pc = "idle" /\ idx = 0 /\ issues = Unbound
    /\ main_content = Unbound /\ out = <<>> /\ exit_code = Running
    /\ content = Unbound /\ result = Unbound

\* lines 17-22: the call of attach() is commented out, so the debugger is
\* not contacted whatever WERKZEUG_RUN_MAIN is; app.run starts serving
GreeterMain ==
    /\ gpc = "start"
    /\ gout' = Append(gout, "Starting hello-world server...")
    /\ gpc' = "serving"
    /\ UNCHANGED <<environ, served>>
    /\ UNCHANGED <<checkerVars, syntaxVars>>

\* lines 7-10: a GET / request is routed to hello_world
HandleRoot ==
    /\ gpc = "serving"
    /\ Len(served) < MaxRequests
    /\ \E req \in Requests :
          served' = Append(served, [request |-> req,
                                    response |-> route_response(hello_world)])
    /\ UNCHANGED <<environ, gpc, gout>>
    /\ UNCHANGED <<checkerVars, syntaxVars>>

GreeterNext == GreeterMain \/ HandleRoot

GreeterSpec == GreeterInit /\ [][GreeterNext]_vars

(***************************************************************************)
(* Properties of check_go_syntax, checked under SyntaxSpec                 *)
(***************************************************************************)
RECURSIVE Occurrences(_, _)
\* how many times the character ch occurs in the text
Occurrences(text, ch) ==
    IF text = <<>>
    THEN 0
    ELSE (IF Head(text) = ch THEN 1 ELSE 0) + Occurrences(Tail(text), ch)

RECURSIVE AfterSpaces(_, _)
\* the first position from k on that holds no whitespace
AfterSpaces(text, k) ==
    IF k <= Len(text) /\ text[k] \in {" ", "\n"}
    THEN AfterSpaces(text, k + 1)
    ELSE k

\* a token that begins with an identifier character
IsIdentifier(tok) == tok \notin {"{", "}", "(", ")", " ", "\n"}

\* some line begins with "package", which is followed by whitespace (one or
\* more characters, a line break counting as whitespace) and then by an
\* identifier character
DeclaresPackage(text) ==
    \E k \in 1..Len(text) :
        /\ k = 1 \/ text[k - 1] = "\n"
        /\ text[k] = "package"
        /\ AfterSpaces(text, k + 1) > k + 1
        /\ AfterSpaces(text, k + 1) <= Len(text)
        /\ IsIdentifier(text[AfterSpaces(text, k + 1)])

BraceText(o, c) ==
    "Unmatched braces: " \o ToString(o) \o " open, " \o ToString(c) \o " close"

ParenText(o, c) ==
    "Unmatched parentheses: " \o ToString(o) \o " open, " \o ToString(c) \o " close"

\* the failing checks among brace, parenthesis, package, in that order
FailingChecks(text) ==
    LET ob == Occurrences(text, "{")
        cb == Occurrences(text, "}")
        op == Occurrences(text, "(")
        cp == Occurrences(text, ")")
    IN (IF ob # cb THEN <<BraceText(ob, cb)>> ELSE <<>>)
       \o (IF op # cp THEN <<ParenText(op, cp)>> ELSE <<>>)
       \o (IF DeclaresPackage(text) THEN <<>> ELSE <<"Missing package declaration">>)

Returned == result # Unbound

\* C1: check_go_syntax returns exactly the failing checks among the brace
\* issue, the parenthesis issue and "Missing package declaration", in that
\* order, each check decided on its own; the result is empty for
\* "package main\nfunc f() { if true { } }", and "func f() {" yields
\* ["Unmatched braces: 1 open, 0 close", "Missing package declaration"].
C1_Theorem ==
    Returned =>
        /\ result = FailingChecks(content)
        /\ content = CleanExample => result = <<>>
        /\ content = OpenBraceExample =>
              result = <<"Unmatched braces: 1 open, 0 close",
                         "Missing package declaration">>

\* a text that fails all three checks was given and the three issues returned
C1_Witness ==
    /\ Returned
    /\ Occurrences(content, "{") = 1 /\ Occurrences(content, "}") = 0
    /\ Occurrences(content, "(") = 0 /\ Occurrences(content, ")") = 2
    /\ result = <<"Unmatched braces: 1 open, 0 close",
                  "Unmatched parentheses: 0 open, 2 close",
                  "Missing package declaration">>

BraceTexts(n) == {BraceText(o, c) : o \in 0..n, c \in 0..n}

NumBraceIssues ==
    Cardinality({k \in 1..Len(result) : result[k] \in BraceTexts(Len(content))})

\* C2: with more '{' than '}' the returned list holds exactly one brace issue,
\* and it reports the true number of '{' as open and of '}' as close; no
\* text yields more than one brace issue.
C2_Theorem ==
    Returned =>
        /\ NumBraceIssues <= 1
        /\ Occurrences(content, "{") > Occurrences(content, "}") =>
              /\ NumBraceIssues = 1
              /\ \E k \in 1..Len(result) :
                    result[k] = BraceText(Occurrences(content, "{"),
                                          Occurrences(content, "}"))

\* three '{' and one '}' were counted and reported
C2_Witness ==
    /\ Returned
    /\ Occurrences(content, "{") = 3
    /\ Occurrences(content, "}") = 1
    /\ result[1] = "Unmatched braces: 3 open, 1 close"

(***************************************************************************)
(* Properties of validate_snapshot_command, checked under Spec / FairSpec  *)
(***************************************************************************)
ExistsText(p) == "[U+2713] " \o p.stem \o p.ext \o " exists"
MissingText(p) == "[U+2717] " \o p.stem \o p.ext \o " missing"
HeaderText == "  [U+26A0] Syntax issues found:"
PassedText == "  [U+2713] Basic syntax validation passed"
ImportAddedText == "[U+2713] Snapshot import added to main.go"
ImportMissingText == "[U+2717] Snapshot import missing from main.go"
CommandAddedText == "[U+2713] Snapshot command added to root command"
CommandMissingText == "[U+2717] Snapshot command not added to root command"
CliIntegrationText == "- CLI integration: [U+2713] Added to main.go"

NumFiles == Len(files_to_check)
GoEntry(k) == files_to_check[k].ext = ".go"
\* the entries of files_to_check that are read: .go files that exist
UnreadableEntry(k) == GoEntry(k) /\ fs[files_to_check[k]] = "unreadable"

ExistenceLineSet ==
    UNION {{ExistsText(files_to_check[k]), MissingText(files_to_check[k])} :
              k \in 1..NumFiles}
MainLineSet ==
    {ImportAddedText, ImportMissingText, CommandAddedText, CommandMissingText}
SummaryLineSet ==
    {(summary_block \o features_block)[k] :
        k \in 1..Len(summary_block \o features_block)}

IsExistenceLine(l) == l \in ExistenceLineSet
IsMainLine(l) == l \in MainLineSet
IsSummaryLine(l) == l \in SummaryLineSet
IsReportLine(l) == l \in {HeaderText, PassedText}
IsTrackedLine(l) == IsExistenceLine(l) \/ IsMainLine(l) \/ IsSummaryLine(l)

ExistenceReport == SelectSeq(out, IsExistenceLine)
MainReport == SelectSeq(out, IsMainLine)
SummaryReport == SelectSeq(out, IsSummaryLine)
SyntaxReports == SelectSeq(out, IsReportLine)

\* the last n lines printed
LastLines(n) == SubSeq(out, Len(out) - n + 1, Len(out))

\* the two fixed blocks were printed, once, as the last lines of the output
SummaryEmitted ==
    /\ SummaryReport = summary_block \o features_block
    /\ Len(out) >= Len(SummaryReport)
    /\ LastLines(Len(SummaryReport)) = summary_block \o features_block

\* no file the run reads is unreadable (README.md is never read)
NoReadFails == \A p \in Paths : p.ext = ".go" => fs[p] # "unreadable"

Terminated == exit_code # Running

\* C3 as stated: whatever the filesystem holds, unreadable files included,
\* the run emits the two fixed blocks; so a run that has ended has emitted them.
C3_Original == Terminated => SummaryEmitted

\* C3 as amended: in every run in which no read fails, the "Validation
\* Summary" and "Features implemented" blocks are eventually emitted, with
\* the same text, whichever files are absent, present or failing their checks.
C3_Theorem == NoReadFails ~> (pc = "done" /\ SummaryEmitted)

\* all four expected files and main.go are absent and the blocks were printed
C3_Witness ==
    /\ \A p \in Paths : fs[p] = "absent"
    /\ pc = "done"
    /\ SummaryEmitted

\* C4 as stated: no run ends in a failure exit.
C4_Original == exit_code \in {Running, {0}}

\* C4 as amended: every run in which no read fails terminates with exit code
\* 0, whether expected files are missing, have syntax issues or are clean
\* and whatever main.go contains.
C4_Theorem ==
    /\ NoReadFails ~> (exit_code = {0})
    /\ [](NoReadFails => exit_code \in {Running, {0}})

\* a run with a missing file and a file with syntax issues ended with 0
C4_Witness ==
    /\ exit_code = {0}
    /\ fs[files_to_check[1]] = "absent"
    /\ fs[files_to_check[3]] = "readable"
    /\ Len(issues) = 3
    /\ fs[main_go_path] = "readable"

C5_Safety ==
    /\ \A k \in 1..NumFiles :
          UnreadableEntry(k) =>
              /\ idx <= k
              /\ pc \notin {"summary", "done"}
              /\ MainReport = <<>>
              /\ SummaryReport = <<>>
              /\ \A j \in (k + 1)..NumFiles, n \in 1..Len(out) :
                    out[n] \notin {ExistsText(files_to_check[j]),
                                   MissingText(files_to_check[j])}
    /\ pc = "crashed" /\ idx <= NumFiles =>
          /\ UnreadableEntry(idx)
          /\ out[Len(out)] = ExistsText(files_to_check[idx])
          /\ exit_code = {1}
          /\ ~ENABLED Next

\* C5: an existing but unreadable .go entry of the expected list ends the
\* script where it is read: no later expected file is examined, main.go is
\* not checked and no summary block is printed.
C5_Theorem ==
    /\ []C5_Safety
    /\ (\E k \in 1..NumFiles : UnreadableEntry(k)) ~> (pc = "crashed")

\* the run ended at the unreadable second entry, with two entries left
C5_Witness ==
    /\ pc = "crashed"
    /\ idx = 2
    /\ fs[files_to_check[1]] = "readable"
    /\ fs[files_to_check[3]] = "readable"
    /\ fs[main_go_path] = "readable"

\* the number of entries whose existence line was printed
NumExamined ==
    IF pc = "start" THEN 0
    ELSE IF pc = "syntax" \/ (pc = "crashed" /\ idx <= NumFiles) THEN idx
    ELSE idx - 1

\* C6: a missing expected file gives exactly one "missing" line and the loop
\* goes on: the existence lines are one per examined entry, "exists" or
\* "missing", in list order, all four of them before the main.go lines and
\* the summary when no read fails.
C6_Theorem ==
    /\ ExistenceReport =
          [k \in 1..NumExamined |->
              IF fs[files_to_check[k]] = "absent"
              THEN MissingText(files_to_check[k])
              ELSE ExistsText(files_to_check[k])]
    /\ pc \in {"summary", "done"} => NumExamined = NumFiles
    /\ SelectSeq(out, IsTrackedLine) = ExistenceReport \o MainReport \o SummaryReport

\* a run with the first and third entries missing went on to the end
C6_Witness ==
    /\ pc = "done"
    /\ ExistenceReport = << MissingText(files_to_check[1]),
                            ExistsText(files_to_check[2]),
                            MissingText(files_to_check[3]),
                            ExistsText(files_to_check[4]) >>
    /\ Len(MainReport) = 2

\* the entries check_go_syntax has returned for
Checked == {k \in 1..(idx - 1) : k <= NumFiles /\ GoEntry(k) /\ fs[files_to_check[k]] # "absent"}

\* C7: check_go_syntax is called on a path only after check_file_exists
\* returned true for it in the same iteration and only if it ends in ".go";
\* for each existing .go entry the "exists" line is followed by either the
\* pass line or the header with one line per issue, in the returned order.
C7_Theorem ==
    /\ pc = "syntax" =>
          /\ idx \in 1..NumFiles
          /\ fs[files_to_check[idx]] # "absent"
          /\ GoEntry(idx)
          /\ out[Len(out)] = ExistsText(files_to_check[idx])
    /\ Len(SyntaxReports) = Cardinality(Checked)
    /\ pc = "loop" /\ idx - 1 \in Checked =>
          /\ issues # Unbound
          /\ LastLines(Len(issues) + 2) =
                IF issues = <<>>
                THEN <<ExistsText(files_to_check[idx - 1]), PassedText>>
                ELSE <<ExistsText(files_to_check[idx - 1]), HeaderText>>
                        \o [k \in 1..Len(issues) |-> "    - " \o issues[k]]

\* the first entry was checked and its three issues reported under the header
C7_Witness ==
    /\ pc = "loop"
    /\ idx = 2
    /\ Len(issues) = 3
    /\ out[Len(out) - 3] = HeaderText
    /\ out[Len(out)] = "    - Missing package declaration"

HasImport(text) ==
    \E k \in 1..(Len(text) - 1) : text[k] = ImportPrefix /\ text[k + 1] = SnapshotWord
HasCall(text) ==
    \E k \in 1..(Len(text) - 1) : text[k] = SnapshotWord /\ text[k + 1] = SnapshotCall

\* C8 as stated: after the per-file loop one line is printed for each of the
\* two substrings.
C8_Original == pc \in {"summary", "done"} => Len(MainReport) = 2

C8_Safety ==
    /\ pc \in {"summary", "done"} /\ fs[main_go_path] # "absent" =>
          MainReport =
              << IF HasImport(main_content) THEN ImportAddedText ELSE ImportMissingText,
                 IF HasCall(main_content) THEN CommandAddedText ELSE CommandMissingText >>
    /\ pc = "summary" /\ fs[main_go_path] # "absent" => LastLines(2) = MainReport

\* C8 as amended: when main.go exists and no read fails, the run prints after
\* the per-file loop one line for the import substring and then one for the
\* call substring, a confirmation if it is present and a warning if not,
\* whichever expected files were missing or had syntax issues.
C8_Theorem ==
    /\ []C8_Safety
    /\ (NoReadFails /\ fs[main_go_path] = "readable")
          ~> (pc = "done" /\ Len(MainReport) = 2)

\* main.go holds "github.com/okteto/okteto/cmd/snapshot.Snapshot(" only, after
\* a loop that found a missing file: both confirmations were printed
C8_Witness ==
    /\ pc = "done"
    /\ fs[files_to_check[1]] = "absent"
    /\ main_content = <<ImportPrefix, SnapshotWord, SnapshotCall>>
    /\ MainReport = <<ImportAddedText, CommandAddedText>>

C10_Safety ==
    /\ fs[main_go_path] = "absent" =>
          /\ MainReport = <<>>
          /\ main_content = Unbound
          /\ pc = "crashed" => idx <= NumFiles
          /\ pc = "done" =>
                /\ SummaryEmitted
                /\ \E n \in 1..Len(out) : out[n] = CliIntegrationText
    /\ (\E n \in 1..Len(out) : out[n] \in {ImportMissingText, CommandMissingText})
          => fs[main_go_path] # "absent"

\* C10: when main.go does not exist no line is printed for either substring,
\* the run is not aborted for it and the summary, with its "CLI integration"
\* line, is still printed; a warning about main.go appears only if it exists.
C10_Theorem ==
    /\ []C10_Safety
    /\ (fs[main_go_path] = "absent" /\ NoReadFails) ~> (pc = "done" /\ SummaryEmitted)

\* main.go is absent, the expected files are there: the run ended with the
\* summary and without a line about main.go
C10_Witness ==
    /\ fs[main_go_path] = "absent"
    /\ \A k \in 1..NumFiles : fs[files_to_check[k]] = "readable"
    /\ pc = "done"
    /\ MainReport = <<>>
    /\ out[Len(out) - Len(features_block)] = CliIntegrationText

(***************************************************************************)
(* Property of the greeter, checked under GreeterSpec                      *)
(***************************************************************************)
\* C9: every request to the root path is answered with the body
\* "Hello World!" and a success status, whatever its query or headers,
\* whether or not the live-reload flag is set and whatever was served before.
C9_Theorem ==
    \A k \in 1..Len(served) :
        /\ served[k].response.body = "Hello World!"
        /\ served[k].response.status \in 200..299

\* with the flag set, two requests that differ in query and headers were served
C9_Witness ==
    /\ environ
    /\ Len(served) >= 2
    /\ served[1].request.query # served[2].request.query
    /\ served[1].request.header # served[2].request.header
    /\ served[2].response = served[1].response

====
